---- MODULE Spec2Model ----
(***************************************************************************)
(* Model of the upload-and-report pipeline of app1.py and app2.py: the     *)
(* column normalizer, the row sanitizer, the metric calculator and the     *)
(* aggregator with its workbook export.                                    *)
(*                                                                         *)
(* TLA+ strings are ASCII, so the Chinese column names of the source are   *)
(* written with these stand-ins:                                           *)
(*   title=笔记标题  exposure=曝光  likes=点赞  views=观看量                *)
(*   favorites=收藏  comments=评论  follower_gain=涨粉  shares=分享         *)
(*   cover_click_rate=封面点击率  publish_time=首次发布时间                 *)
(*   content_type=体裁  seq=序号  like_rate=点赞率  favorite_rate=收藏率    *)
(*   like_favorite_ratio=赞藏比  comment_rate=评论率                        *)
(*   engagement_rate=互动率  effective_activity=有效活跃度                  *)
(*   follow_conversion_rate=转粉率                                          *)
(*   exposure_count=曝光量 read_count=阅读量 play_count=播放量              *)
(*   view_count=观看数 like_count=点赞数 likes_received=获赞                *)
(*   likes_received_count=获赞数 like_times=点赞次数                        *)
(*   favorite_count=收藏数 comment_count=评论数                             *)
(*   follower_gain_count=涨粉数 net_follower_gain=净涨粉                    *)
(*   publish_form=发布形式                                                  *)
(* and the unit suffixes of the date format 年 月 日 时 分 秒 are written   *)
(* "Y" "M" "D" "h" "m" "s".                                                *)
(***************************************************************************)
EXTENDS Integers, Sequences, FiniteSets, TLC

(***************************************************************************)
(* Cells.  Every cell has the same shape so that any two can be compared:  *)
(*   k = "num"   the number n/d (d > 0; an integer has d = 1)              *)
(*   k = "inf"   a float infinity (n is its sign), "nan" a float NaN/NaT   *)
(*   k = "na"    pandas' pd.NA                                             *)
(*   k = "blank" an empty spreadsheet cell                                 *)
(*   k = "text"  the string whose characters are s                         *)
(*   k = "time"  the timestamp t = <<year, month, day, hour, min, sec>>    *)
(***************************************************************************)
Cell(k, n, d, s, t) == [k |-> k, n |-> n, d |-> d, s |-> s, t |-> t]
Num(n) == Cell("num", n, 1, <<>>, <<>>)
Frac(n, d) == Cell("num", n, d, <<>>, <<>>)
Inf(sign) == Cell("inf", sign, 0, <<>>, <<>>)
NaN == Cell("nan", 0, 0, <<>>, <<>>)
NA == Cell("na", 0, 0, <<>>, <<>>)
Blank == Cell("blank", 0, 0, <<>>, <<>>)
Text(s) == Cell("text", 0, 0, s, <<>>)
Time(t) == Cell("time", 0, 0, <<>>, t)

\* pd.isna: NaN, NaT and pd.NA are the null values of a DataFrame
IsNull(c) == c.k \in {"nan", "na"}

DigitChars == {"0", "1", "2", "3", "4", "5", "6", "7", "8", "9"}
DigitVal(c) ==
  CASE c = "0" -> 0 [] c = "1" -> 1 [] c = "2" -> 2 [] c = "3" -> 3
    [] c = "4" -> 4 [] c = "5" -> 5 [] c = "6" -> 6 [] c = "7" -> 7
    [] c = "8" -> 8 [] c = "9" -> 9

\* the number of digit characters of s from position pos on
RECURSIVE DigitRun(_, _)
DigitRun(s, pos) ==
  IF pos <= Len(s) /\ s[pos] \in DigitChars THEN 1 + DigitRun(s, pos + 1) ELSE 0

\* the value of the n digits of s that start at pos
RECURSIVE DigitsValue(_, _, _)
DigitsValue(s, pos, n) ==
  IF n = 0 THEN 0
  ELSE 10 * DigitsValue(s, pos, n - 1) + DigitVal(s[pos + n - 1])

(***************************************************************************)
(* pd.to_datetime(col, format='%Y<Y>%m<M>%d<D>%H<h>%M<m>%S<s>',            *)
(* errors='coerce'): the whole string must match the format.  %Y is four   *)
(* digits; the other fields are one or two digits within the directive's   *)
(* range; a date that does not exist, a second above 59 or a timestamp     *)
(* outside datetime64[ns] becomes NaT.                                     *)
(***************************************************************************)
TimeFormat ==
  << [w |-> 4, lo |-> 0, hi |-> 9999, suffix |-> "Y"],
     [w |-> 2, lo |-> 1, hi |-> 12, suffix |-> "M"],
     [w |-> 2, lo |-> 1, hi |-> 31, suffix |-> "D"],
     [w |-> 2, lo |-> 0, hi |-> 23, suffix |-> "h"],
     [w |-> 2, lo |-> 0, hi |-> 59, suffix |-> "m"],
     [w |-> 2, lo |-> 0, hi |-> 61, suffix |-> "s"] >>

\* the fields of s from position pos on, read with directives k.. of the
\* format and appended to acc; <<>> when s does not match
RECURSIVE MatchFormat(_, _, _, _)
MatchFormat(s, pos, k, acc) ==
  IF k > Len(TimeFormat) THEN (IF pos = Len(s) + 1 THEN acc ELSE <<>>)
  ELSE LET f == TimeFormat[k]
           n == DigitRun(s, pos)
           widthOk == IF f.w = 4 THEN n = 4 ELSE n \in 1..2
       IN  IF ~widthOk THEN <<>>
           ELSE LET v == DigitsValue(s, pos, n)
                IN  IF v < f.lo \/ v > f.hi THEN <<>>
                    ELSE IF pos + n > Len(s) \/ s[pos + n] # f.suffix THEN <<>>
                    ELSE MatchFormat(s, pos + n + 1, k + 1, Append(acc, v))

IsLeap(y) == (y % 4 = 0 /\ y % 100 # 0) \/ y % 400 = 0
DaysInMonth(y, m) ==
  IF m = 2 THEN (IF IsLeap(y) THEN 29 ELSE 28)
  ELSE IF m \in {4, 6, 9, 11} THEN 30 ELSE 31

\* lexicographic order of two tuples of integers of the same length
RECURSIVE LexLess(_, _)
LexLess(a, b) ==
  /\ a # <<>>
  /\ \/ a[1] < b[1]
     \/ a[1] = b[1] /\ LexLess(Tail(a), Tail(b))
LexLeq(a, b) == a = b \/ LexLess(a, b)

\* the bounds of pandas' Timestamp (datetime64[ns]), to the second
TimestampMin == <<1677, 9, 21, 0, 12, 44>>
TimestampMax == <<2262, 4, 11, 23, 47, 16>>

ParseDatetime(c) ==
  IF c.k # "text" THEN NaN
  ELSE LET t == MatchFormat(c.s, 1, 1, <<>>)
       IN  IF t = <<>> THEN NaN
           ELSE IF t[3] > DaysInMonth(t[1], t[2]) \/ t[6] > 59 THEN NaN
           ELSE IF ~(LexLeq(TimestampMin, t) /\ LexLeq(t, TimestampMax)) THEN NaN
           ELSE Time(t)

(***************************************************************************)
(* pd.to_numeric(col, errors="coerce"): a number stays; a string of an     *)
(* optional sign, digits and an optional fraction is parsed; anything else *)
(* (other strings, empty cells) becomes NaN.                               *)
(***************************************************************************)
RECURSIVE Pow10(_)
Pow10(n) == IF n = 0 THEN 1 ELSE 10 * Pow10(n - 1)

ParseNumber(s) ==
  LET signed == s # <<>> /\ s[1] \in {"-", "+"}
      start == IF signed THEN 2 ELSE 1
      sign == IF signed /\ s[1] = "-" THEN -1 ELSE 1
      n == DigitRun(s, start)
      after == start + n
      dot == after <= Len(s) /\ s[after] = "."
      m == IF dot THEN DigitRun(s, after + 1) ELSE 0
      end == IF dot THEN after + m ELSE after - 1
  IN  IF n + m = 0 \/ end # Len(s) THEN NaN
      ELSE Frac(sign * (DigitsValue(s, start, n) * Pow10(m)
                        + DigitsValue(s, after + 1, m)), Pow10(m))

ToNumeric(c) ==
  CASE c.k = "num" -> c
    [] c.k = "text" -> ParseNumber(c.s)
    [] OTHER -> NaN

\* Series.fillna(0)
FillNa0(c) == IF IsNull(c) THEN Num(0) ELSE c

\* the coercion with fillna(0) left out
CoerceNumeric_NoFill(c) == ToNumeric(c)

\* one cell of  pd.to_numeric(df[c], errors="coerce").fillna(0)
CoerceNumeric(c) == FillNa0(ToNumeric(c))

(***************************************************************************)
(* DataFrames: the column names in order and the rows, each a sequence of  *)
(* cells in column order.                                                  *)
(***************************************************************************)
Range(f) == {f[i] : i \in DOMAIN f}
\* (\o <<>> leaves a sequence as it is; TLC then holds it as a tuple)
DataFrame(columns, rows) == [columns |-> columns \o <<>>, rows |-> rows \o <<>>]
NRows(df) == Len(df.rows)
ColIdx(df, name) == CHOOSE i \in 1..Len(df.columns) : df.columns[i] = name
\* df[name]
GetCol(df, name) == [r \in 1..NRows(df) |-> df.rows[r][ColIdx(df, name)]] \o <<>>
\* df[name] = values: an existing column is overwritten in place, a new
\* one is appended
AssignCol(df, name, values) ==
  IF name \in Range(df.columns)
  THEN DataFrame(df.columns,
         [r \in 1..NRows(df) |-> [df.rows[r] EXCEPT ![ColIdx(df, name)] = values[r]]])
  ELSE DataFrame(Append(df.columns, name),
         [r \in 1..NRows(df) |-> Append(df.rows[r], values[r])])
\* df.insert(0, name, values), for a name that is not a column yet
InsertFirst(df, name, values) ==
  DataFrame(<<name>> \o df.columns,
    [r \in 1..NRows(df) |-> <<values[r]>> \o df.rows[r]])

(***************************************************************************)
(* Spreadsheets.  A sheet has `pre` rows above its header row, the header  *)
(* row (labels, which may carry whitespace around their text) and the data *)
(* rows.  pd.read_excel(sheet, header=h) takes row h as the header and the *)
(* rows below it as data; an empty cell reads as NaN.  (A header row taken *)
(* from the data rows gives labels that are no column names.)              *)
(***************************************************************************)
Label(lead, core, trail) == [lead |-> lead, core |-> core, trail |-> trail]
Sheet(pre, header, body) == [pre |-> pre, header |-> header, body |-> body]

ReadCell(c) == IF c.k = "blank" THEN NaN ELSE c
ReadExcel(sheet, h) ==
  LET skip == h - sheet.pre  \* data rows consumed up to the header row
      width == Len(sheet.header)
      data == SubSeq(sheet.body, skip + 1, Len(sheet.body))
  IN  DataFrame(IF skip = 0 THEN sheet.header
                ELSE [j \in 1..width |-> Label(0, "Unnamed", 0)],
        [r \in 1..Len(data) |->
           [j \in 1..Len(data[r]) |-> ReadCell(data[r][j])]])

\* to_excel with index=False left out: the index is written as a first,
\* unnamed column
ToExcel_WithIndex(df) ==
  [pre |-> 0,
   header |-> <<Label(0, "", 0)>> \o [j \in 1..Len(df.columns) |-> Label(0, df.columns[j], 0)],
   body |-> [r \in 1..NRows(df) |->
              <<Num(r - 1)>> \o [j \in 1..Len(df.rows[r]) |->
                                   IF IsNull(df.rows[r][j]) THEN Blank ELSE df.rows[r][j]]]]

\* df.to_excel(writer, sheet_name=..., index=False): the header in row 0,
\* null values written as empty cells
WriteCell(c) == IF IsNull(c) THEN Blank ELSE c
ToExcel(df) ==
  Sheet(0, [j \in 1..Len(df.columns) |-> Label(0, df.columns[j], 0)],
    [r \in 1..NRows(df) |->
       [j \in 1..Len(df.rows[r]) |-> WriteCell(df.rows[r][j])]])

(***************************************************************************)
(* Column normalizer (app1.py 29-42, app2.py 22-36).                       *)
(***************************************************************************)
\* df.columns.astype(str).str.strip()
Strip(label) == label.core

\* rename_map
Rename(name) ==
  CASE name = "exposure_count" -> "exposure"
    [] name \in {"read_count", "play_count", "view_count"} -> "views"
    [] name \in {"like_count", "likes_received", "likes_received_count",
                 "like_times"} -> "likes"
    [] name = "favorite_count" -> "favorites"
    [] name = "comment_count" -> "comments"
    [] name \in {"follower_gain_count", "net_follower_gain"} -> "follower_gain"
    [] name = "publish_form" -> "content_type"
    [] OTHER -> name

NormalizeColumns(df) ==
  DataFrame([j \in 1..Len(df.columns) |-> Rename(Strip(df.columns[j]))], df.rows)

required_cols ==
  << "title", "exposure", "likes", "views", "favorites", "comments",
     "follower_gain", "shares", "cover_click_rate", "publish_time",
     "content_type" >>

\* the check with "shares" forgotten in the required list
MissingCols_NoShares(df) ==
  SelectSeq(required_cols, LAMBDA c : c # "shares" /\ c \notin Range(df.columns))

\* missing = [c for c in required_cols if c not in df.columns]
MissingCols(df) == SelectSeq(required_cols, LAMBDA c : c \notin Range(df.columns))

(***************************************************************************)
(* Row sanitizer (app1.py 45-49, app2.py 39-44).                           *)
(***************************************************************************)
\* df["publish_time"] = pd.to_datetime(df["publish_time"], format=...,
\*                                     errors='coerce')
ParseDates(df) ==
  AssignCol(df, "publish_time",
    [r \in 1..NRows(df) |-> ParseDatetime(GetCol(df, "publish_time")[r])])

\* the rows with dropna left out
KeptRows_All(df) == [r \in 1..NRows(df) |-> r] \o <<>>

\* the positions of the rows that df.dropna(subset=["publish_time"]) keeps
KeptRows(df) ==
  SelectSeq([r \in 1..NRows(df) |-> r],
            LAMBDA r : ~IsNull(GetCol(df, "publish_time")[r]))

\* the order of sort_values: ascending, null values last
TimeLeq(a, b) == IsNull(b) \/ (~IsNull(a) /\ LexLeq(a.t, b.t))

\* the kept rows in any order at all: the sort left out or wrong
SortOrders_Unsorted(df) ==
  LET kept == KeptRows(df)
      n == Len(kept)
  IN  { p \in [1..n -> Range(kept)] : \A i, j \in 1..n : i # j => p[i] # p[j] }

\* The orders df.sort_values(by="publish_time", ascending=True) can leave
\* the kept rows in.  sort_values sorts with kind='quicksort', which is not
\* a stable sort: rows of equal timestamp may come out in any order.
SortOrders(df) ==
  LET kept == KeptRows(df)
      n == Len(kept)
      time == GetCol(df, "publish_time")
  IN  { p \in [1..n -> Range(kept)] :
          /\ \A i, j \in 1..n : i # j => p[i] # p[j]
          /\ \A i \in 1..n - 1 : TimeLeq(time[p[i]], time[p[i + 1]]) }

\* dropna, sort_values, reset_index(drop=True) with the rows left in `order`
TakeRows(df, order) ==
  DataFrame(df.columns, [i \in 1..Len(order) |-> df.rows[order[i]]])

\* df.insert(0, "seq", df.index + 1) raises ValueError when the frame
\* already has a column of that name
CanInsertSeq(df) == "seq" \notin Range(df.columns)
InsertSeq(df) == InsertFirst(df, "seq", [r \in 1..NRows(df) |-> Num(r)])

(***************************************************************************)
(* Metric calculator (app1.py 56-66, app2.py 48-56).                       *)
(***************************************************************************)
numeric_cols ==
  << "exposure", "cover_click_rate", "likes", "views", "favorites",
     "comments", "follower_gain", "shares" >>

RECURSIVE CoerceCols(_, _)
CoerceCols(df, k) ==
  IF k = 0 THEN df
  ELSE LET done == CoerceCols(df, k - 1)
       IN  AssignCol(done, numeric_cols[k],
             [r \in 1..NRows(done) |-> CoerceNumeric(GetCol(done, numeric_cols[k])[r])])

\* Series.replace(0, pd.NA)
ReplaceZero(c) == IF c.k = "num" /\ c.n = 0 THEN NA ELSE c

Add(a, b) == Frac(a.n * b.d + b.n * a.d, a.d * b.d)

\* a / b on two cells of numeric columns: pd.NA propagates; a float
\* division by zero gives an infinity or NaN, never an exception
Divide(a, b) ==
  IF IsNull(a) \/ IsNull(b) THEN NA
  ELSE IF b.n = 0 THEN (IF a.n = 0 THEN NaN ELSE Inf(IF a.n > 0 THEN 1 ELSE -1))
  ELSE IF b.n > 0 THEN Frac(a.n * b.d, a.d * b.n)
  ELSE Frac(-(a.n * b.d), -(a.d * b.n))

\* the division with .replace(0, pd.NA) left out
Ratio_Unguarded(num, den) == Divide(num, den)

\* numerator / denominator.replace(0, pd.NA)
Ratio(num, den) == Divide(num, ReplaceZero(den))

DeriveMetrics(df) ==
  LET n == NRows(df)
      likes == GetCol(df, "likes")
      views == GetCol(df, "views")
      favorites == GetCol(df, "favorites")
      comments == GetCol(df, "comments")
      gain == GetCol(df, "follower_gain")
      d1 == AssignCol(df, "like_rate", [r \in 1..n |-> Ratio(likes[r], views[r])])
      d2 == AssignCol(d1, "favorite_rate",
              [r \in 1..n |-> Ratio(favorites[r], views[r])])
      d3 == AssignCol(d2, "like_favorite_ratio",
              [r \in 1..n |-> Ratio(likes[r], favorites[r])])
      d4 == AssignCol(d3, "comment_rate",
              [r \in 1..n |-> Ratio(comments[r], views[r])])
      d5 == AssignCol(d4, "engagement_rate",
              [r \in 1..n |->
                 Ratio(Add(Add(likes[r], comments[r]), favorites[r]), views[r])])
      d6 == AssignCol(d5, "effective_activity",
              [r \in 1..n |-> Ratio(comments[r], Add(likes[r], favorites[r]))])
      d7 == AssignCol(d6, "follow_conversion_rate",
              [r \in 1..n |-> Ratio(gain[r], views[r])])
  IN  d7

(***************************************************************************)
(* analyze_and_display(df, filename), without its rendering calls (they    *)
(* change no state).  `order` is the order the sort leaves the rows in.    *)
(* The result is the returned frame, None after the missing-columns        *)
(* report, or the exception raised.                                        *)
(***************************************************************************)
None == DataFrame(<<>>, <<>>)

Normalized(df_raw) == NormalizeColumns(df_raw)
Sanitized(df_raw) == ParseDates(Normalized(df_raw))

\* analyze_and_display raising on a frame that kept no row (as it would if
\* the date range of an empty column could not be shown)
analyze_and_display_EmptyRaises(df_raw, order) ==
  LET df == Normalized(df_raw)
      missing == MissingCols(df)
  IN  IF missing # <<>>
      THEN [status |-> "missing", missing |-> missing, df |-> None]
      ELSE LET sorted == TakeRows(ParseDates(df), order)
           IN  IF ~CanInsertSeq(sorted) \/ NRows(sorted) = 0
               THEN [status |-> "raised", missing |-> <<>>, df |-> None]
               ELSE [status |-> "ok", missing |-> <<>>,
                     df |-> DeriveMetrics(
                              CoerceCols(InsertSeq(sorted), Len(numeric_cols)))]

analyze_and_display(df_raw, order) ==
  LET df == Normalized(df_raw)
      missing == MissingCols(df)
  IN  IF missing # <<>>
      THEN [status |-> "missing", missing |-> missing, df |-> None]
      ELSE LET sorted == TakeRows(ParseDates(df), order)
           IN  IF ~CanInsertSeq(sorted)
               THEN [status |-> "raised", missing |-> <<>>, df |-> None]
               ELSE [status |-> "ok", missing |-> <<>>,
                     df |-> DeriveMetrics(
                              CoerceCols(InsertSeq(sorted), Len(numeric_cols)))]

(***************************************************************************)
(* Aggregator (app1.py 159-162 and 173-176, app2.py 112-114 and 118-121).  *)
(***************************************************************************)
Letters ==
  {"a", "b", "c", "d", "e", "f", "g", "h", "i", "j", "k", "l", "m", "n",
   "o", "p", "q", "r", "s", "t", "u", "v", "w", "x", "y", "z"}
\* str.isalnum
IsAlnum(c) == c \in Letters \cup DigitChars

\* the length of an Excel sheet name the source truncates to
SheetNameMax == 31

\* ''.join(e for e in name if e.isalnum())[:31]
SheetName(name) ==
  LET kept == SelectSeq(name, IsAlnum)
  IN  SubSeq(kept, 1, IF Len(kept) < SheetNameMax THEN Len(kept) ELSE SheetNameMax)

\* A dict as its items in insertion order.  d[key] = value keeps the place
\* of a key that is already there.
Keys(d) == {d[i].key : i \in DOMAIN d}
Lookup(d, key) == d[CHOOSE i \in DOMAIN d : d[i].key = key].value
\* the first value of a key kept instead of the last
SetItem_KeepFirst(d, key, value) ==
  IF key \in Keys(d) THEN d ELSE Append(d, [key |-> key, value |-> value])

SetItem(d, key, value) ==
  IF key \in Keys(d)
  THEN [i \in DOMAIN d |-> IF d[i].key = key THEN [key |-> key, value |-> value]
                           ELSE d[i]]
  ELSE Append(d, [key |-> key, value |-> value])

\* the workbook: for sheet_name, df in processed_dfs.items(): df.to_excel(...)
WriteWorkbook(d) ==
  [i \in DOMAIN d |-> [name |-> d[i].key, sheet |-> ToExcel(d[i].value)]]

(***************************************************************************)
(* Inputs: the uploaded files.  A file has a name, is readable or not      *)
(* (pd.read_excel raises on a file that is no workbook) and holds a sheet  *)
(* in the source layout: a banner row, the header row, the data rows.      *)
(***************************************************************************)
MaxFiles == 2
MaxRows == 2

\* "2024Y01M05D10h00m00s"
TimeA == Text(<<"2", "0", "2", "4", "Y", "0", "1", "M", "0", "5", "D",
               "1", "0", "h", "0", "0", "m", "0", "0", "s">>)
\* "2024Y1M5D10h0m0s": the same instant, written without padding
TimeA2 == Text(<<"2", "0", "2", "4", "Y", "1", "M", "5", "D",
                "1", "0", "h", "0", "m", "0", "s">>)
\* "2023Y12M31D23h59m59s"
TimeB == Text(<<"2", "0", "2", "3", "Y", "1", "2", "M", "3", "1", "D",
               "2", "3", "h", "5", "9", "m", "5", "9", "s">>)
\* "2024-01-05 10:00:00": another format
TimeDash == Text(<<"2", "0", "2", "4", "-", "0", "1", "-", "0", "5", " ",
                  "1", "0", ":", "0", "0", ":", "0", "0">>)
\* "2024Y02M30D10h00m00s": a day that does not exist
TimeNoDay == Text(<<"2", "0", "2", "4", "Y", "0", "2", "M", "3", "0", "D",
                   "1", "0", "h", "0", "0", "m", "0", "0", "s">>)
\* "2024Y13M05D10h00m00s": a month out of range
TimeNoMonth == Text(<<"2", "0", "2", "4", "Y", "1", "3", "M", "0", "5", "D",
                     "1", "0", "h", "0", "0", "m", "0", "0", "s">>)

GoodTimes == {TimeA, TimeA2, TimeB}
BadTimes == {TimeDash, TimeNoDay, TimeNoMonth, Blank}

Counters(exposure, ccr, likes, views, favorites, comments, gain, shares) ==
  [exposure |-> exposure, cover_click_rate |-> ccr, likes |-> likes,
   views |-> views, favorites |-> favorites, comments |-> comments,
   follower_gain |-> gain, shares |-> shares]

\* every counter a positive number
CountsPlain == Counters(Num(100), Frac(1, 4), Num(3), Num(10), Num(2), Num(1),
                        Num(1), Num(4))
\* no views
CountsNoViews == Counters(Num(50), Frac(1, 5), Num(3), Num(0), Num(2), Num(1),
                          Num(1), Num(0))
\* neither likes nor favorites
CountsNoLikes == Counters(Num(20), Num(0), Num(0), Num(5), Num(0), Num(2),
                          Num(0), Num(1))
\* cells that are no numbers: "abc", "12%", an empty cell; and the numbers
\* "12" and "1.5" written as text
CountsText == Counters(Blank, Text(<<"1", "2", "%">>), Text(<<"1", "2">>),
                       Text(<<"a", "b", "c">>), Text(<<"1", ".", "5">>), Blank,
                       Text(<<"-">>), Num(2))
\* likes and favorites that cancel
CountsCancel == Counters(Num(7), Frac(1, 2), Num(-2), Num(4), Num(2), Num(3),
                         Text(<<"x">>), Blank)

CounterPool == {CountsPlain, CountsNoViews, CountsNoLikes, CountsText, CountsCancel}

\* one data row, by field
Row(time, counts) ==
  [title |-> Text(<<"p">>), publish_time |-> time,
   content_type |-> Text(<<"v">>), note |-> Num(9), seq |-> Num(7),
   like_rate |-> Text(<<"o", "l", "d">>),
   exposure |-> counts.exposure, cover_click_rate |-> counts.cover_click_rate,
   likes |-> counts.likes, views |-> counts.views,
   favorites |-> counts.favorites, comments |-> counts.comments,
   follower_gain |-> counts.follower_gain, shares |-> counts.shares]

Col(label, field) == [label |-> label, field |-> field]
Plain(name) == Col(Label(0, name, 0), name)

\* the canonical names, in the order of the back office's export
LayoutCanon ==
  << Plain("title"), Plain("publish_time"), Plain("content_type"),
     Plain("exposure"), Plain("views"), Plain("cover_click_rate"),
     Plain("likes"), Plain("comments"), Plain("favorites"),
     Plain("follower_gain"), Plain("shares") >>
\* synonyms, padded labels, another order and a column the pipeline ignores
LayoutSynonyms ==
  << Col(Label(1, "exposure_count", 0), "exposure"),
     Col(Label(0, "play_count", 2), "views"),
     Col(Label(0, "likes_received", 0), "likes"),
     Col(Label(0, "favorite_count", 0), "favorites"),
     Col(Label(0, "note", 0), "note"),
     Col(Label(0, "comment_count", 0), "comments"),
     Col(Label(0, "net_follower_gain", 0), "follower_gain"),
     Plain("shares"), Plain("cover_click_rate"),
     Col(Label(1, "publish_time", 1), "publish_time"),
     Col(Label(0, "publish_form", 0), "content_type"), Plain("title") >>
\* no favorites column, and a shares label that is no synonym
LayoutNoFavorites ==
  << Plain("title"), Plain("publish_time"), Plain("content_type"),
     Plain("exposure"), Plain("views"), Plain("cover_click_rate"),
     Plain("likes"), Plain("comments"), Plain("follower_gain"),
     Col(Label(0, "share count", 0), "shares") >>
\* the input already has a seq column
LayoutSeq == <<Plain("seq")>> \o LayoutCanon
\* the input already has a like_rate column
LayoutRate == <<Plain("like_rate")>> \o LayoutCanon

MkSheet(layout, rows) ==
  Sheet(1, [j \in 1..Len(layout) |-> layout[j].label],
    [r \in 1..Len(rows) |-> [j \in 1..Len(layout) |-> rows[r][layout[j].field]]])

File(name, readable, sheet) == [name |-> name, readable |-> readable, sheet |-> sheet]

RECURSIVE Rep(_, _)
Rep(c, n) == IF n = 0 THEN <<>> ELSE <<c>> \o Rep(c, n - 1)

\* "a.xlsx" and "a-.xlsx" give the same sheet name; so do the two long
\* names, which differ after their 31st alphanumeric character
NameA == <<"a", ".", "x", "l", "s", "x">>
NameA2 == <<"a", "-", ".", "x", "l", "s", "x">>
NameB == <<"b", " ", "(", "1", ")", ".", "x", "l", "s">>
NameLong1 == Rep("r", SheetNameMax) \o <<"1", ".", "x", "l", "s", "x">>
NameLong2 == Rep("r", SheetNameMax) \o <<"2", ".", "x", "l", "s", "x">>

Corrupt == File(NameB, FALSE, Sheet(1, <<>>, <<>>))

\* the files of the upload loop's specification
LoopFiles ==
  { File(NameA, TRUE, MkSheet(LayoutCanon,
           <<Row(TimeA, CountsPlain), Row(TimeB, CountsNoViews)>>)),
    File(NameA2, TRUE, MkSheet(LayoutSynonyms,
           <<Row(TimeDash, CountsPlain), Row(TimeA2, CountsText)>>)),
    File(NameA, TRUE, MkSheet(LayoutNoFavorites, <<Row(TimeA, CountsPlain)>>)),
    File(NameB, TRUE, MkSheet(LayoutSynonyms,
           <<Row(TimeA, CountsNoLikes), Row(TimeB, CountsPlain),
             Row(TimeA2, CountsCancel)>>)),
    File(NameB, TRUE, MkSheet(LayoutCanon,
           <<Row(Blank, CountsPlain), Row(TimeNoDay, CountsText)>>)),
    File(NameLong1, TRUE, MkSheet(LayoutRate,
           <<Row(TimeA, CountsPlain), Row(TimeNoMonth, CountsPlain),
             Row(TimeB, CountsCancel)>>)),
    File(NameLong2, TRUE, MkSheet(LayoutCanon, <<>>)),
    File(NameLong2, TRUE, MkSheet(LayoutSeq, <<Row(TimeA, CountsPlain)>>)),
    File(NameA2, TRUE, MkSheet(LayoutSeq, <<Row(TimeDash, CountsNoViews)>>)),
    File(NameA, FALSE, Sheet(1, <<>>, <<>>)),
    Corrupt }

\* the sequences of at most n elements of S
RECURSIVE SeqsUpTo(_, _)
SeqsUpTo(S, n) ==
  IF n = 0 THEN {<<>>}
  ELSE LET shorter == SeqsUpTo(S, n - 1)
       IN  shorter \cup {Append(q, x) : q \in {p \in shorter : Len(p) = n - 1}, x \in S}

\* the files of the row-level specification: every sequence of at most
\* MaxRows rows of the pool, under the layout with synonyms
RowPool ==
  { Row(TimeA, CountsPlain), Row(TimeB, CountsNoViews), Row(TimeA2, CountsNoLikes),
    Row(TimeA, CountsText), Row(TimeB, CountsCancel), Row(TimeA2, CountsPlain),
    Row(TimeDash, CountsText), Row(Blank, CountsNoViews) }
RowFiles ==
  {File(NameA, TRUE, MkSheet(LayoutSynonyms, rows)) : rows \in SeqsUpTo(RowPool, MaxRows)}
  \cup { File(NameA, TRUE, MkSheet(LayoutNoFavorites, <<Row(TimeA, CountsPlain)>>)),
         File(NameB, TRUE, MkSheet(LayoutSeq, <<Row(TimeA, CountsPlain)>>)),
         Corrupt }

(***************************************************************************)
(* The script run: the upload loop and the export.                         *)
(*   variant        "app1" or "app2"                                       *)
(*   uploaded_files the files of st.file_uploader                          *)
(*   i              the position of the loop in uploaded_files             *)
(*   processed_dfs  the report mapping                                     *)
(*   errors         the st.error reports, in order                         *)
(*   attempts       what became of each file the loop has taken up, and    *)
(*                  for an analyzed file the input rows it kept, in the    *)
(*                  order of the returned frame                            *)
(*   workbook       the sheets written to the download buffer              *)
(*   pc             "loop", "done", or "aborted" by an uncaught exception  *)
(***************************************************************************)
VARIABLES variant, uploaded_files, i, processed_dfs, errors, attempts, workbook, pc

vars == <<variant, uploaded_files, i, processed_dfs, errors, attempts, workbook, pc>>

InitRun(files) ==
  /\ variant \in {"app1", "app2"}
  /\ uploaded_files \in files
  /\ i = 1
  /\ processed_dfs = <<>>
  /\ errors = <<>>
  /\ attempts = <<>>
  /\ workbook = <<>>
  /\ pc = "loop"

Init == InitRun(SeqsUpTo(LoopFiles, MaxFiles))
InitRows == InitRun({<<>>} \cup {<<f>> : f \in RowFiles})

InLoop == pc = "loop" /\ i <= Len(uploaded_files)
up == uploaded_files[i]
\* df_raw = pd.read_excel(uploaded_file, header=1)
df_raw == ReadExcel(up.sheet, 1)

Attempt(status, missing, order, df) ==
  [file |-> i, status |-> status, missing |-> missing, order |-> order, df |-> df]
Report(kind, missing) == [kind |-> kind, file |-> i, missing |-> missing]

\* An exception inside the loop body.  app1 catches it (except Exception),
\* reports it and goes on to the next file; app2 has no handler, and the
\* exception ends the script run.
Raise(status) ==
  /\ attempts' = Append(attempts, Attempt(status, <<>>, <<>>, None))
  /\ IF variant = "app1"
     THEN /\ errors' = Append(errors, Report("exception", <<>>))
          /\ i' = i + 1
          /\ pc' = pc
     ELSE /\ pc' = "aborted"
          /\ UNCHANGED <<errors, i>>
  /\ UNCHANGED <<variant, uploaded_files, processed_dfs, workbook>>

\* pd.read_excel raises
ReadFails ==
  /\ InLoop
  /\ ~up.readable
  /\ Raise("unreadable")

\* analyze_and_display reports the missing columns and returns None
SkipFile ==
  /\ InLoop
  /\ up.readable
  /\ MissingCols(Normalized(df_raw)) # <<>>
  /\ LET res == analyze_and_display(df_raw, <<>>)
     IN  /\ errors' = Append(errors, Report("missing", res.missing))
         /\ attempts' = Append(attempts, Attempt(res.status, res.missing, <<>>, res.df))
  /\ i' = i + 1
  /\ UNCHANGED <<variant, uploaded_files, processed_dfs, workbook, pc>>

\* analyze_and_display raises (df.insert on an existing column)
AnalyzeRaises ==
  /\ InLoop
  /\ up.readable
  /\ MissingCols(Normalized(df_raw)) = <<>>
  /\ \E order \in SortOrders(Sanitized(df_raw)) :
       analyze_and_display(df_raw, order).status = "raised"
  /\ Raise("raised")

\* analyze_and_display returns the frame, which goes into the mapping
AnalyzeFile ==
  /\ InLoop
  /\ up.readable
  /\ MissingCols(Normalized(df_raw)) = <<>>
  /\ \E order \in SortOrders(Sanitized(df_raw)) :
       LET res == analyze_and_display(df_raw, order)
       IN  /\ res.status = "ok"
           /\ processed_dfs' = SetItem(processed_dfs, SheetName(up.name), res.df)
           /\ attempts' = Append(attempts, Attempt("ok", <<>>, order, res.df))
  /\ i' = i + 1
  /\ UNCHANGED <<variant, uploaded_files, errors, workbook, pc>>

\* after the loop: if processed_dfs: write the workbook
Export ==
  /\ pc = "loop"
  /\ uploaded_files # <<>>
  /\ i > Len(uploaded_files)
  /\ workbook' = IF processed_dfs # <<>> THEN WriteWorkbook(processed_dfs) ELSE workbook
  /\ pc' = "done"
  /\ UNCHANGED <<variant, uploaded_files, i, processed_dfs, errors, attempts>>

\* else: st.info, nothing to do
NoFiles ==
  /\ pc = "loop"
  /\ uploaded_files = <<>>
  /\ pc' = "done"
  /\ UNCHANGED <<variant, uploaded_files, i, processed_dfs, errors, attempts, workbook>>

Next == ReadFails \/ SkipFile \/ AnalyzeRaises \/ AnalyzeFile \/ Export \/ NoFiles

Spec == Init /\ [][Next]_vars
SpecRows == InitRows /\ [][Next]_vars

(***************************************************************************)
(* Properties.  What the files hold is read off the uploaded sheets, and   *)
(* what the pipeline should make of the times, the cells and the names of  *)
(* the inputs above is written out by hand.                                *)
(***************************************************************************)
AttFile(a) == uploaded_files[a.file]
NormHeader(f) == [j \in DOMAIN f.sheet.header |-> Rename(Strip(f.sheet.header[j]))]
AbsentRequired(f) == Range(required_cols) \ Range(NormHeader(f))
\* the cell of data row r of file f under the column that normalizes to c
SrcCell(f, r, c) == f.sheet.body[r][CHOOSE j \in DOMAIN f.sheet.header : NormHeader(f)[j] = c]
DfCell(df, r, c) == df.rows[r][ColIdx(df, c)]
OkAttempts == {k \in DOMAIN attempts : attempts[k].status = "ok"}
IsZero(c) == c.k = "num" /\ c.n = 0

ExpectedTime(c) ==
  CASE c \in {TimeA, TimeA2} -> <<2024, 1, 5, 10, 0, 0>>
    [] c = TimeB -> <<2023, 12, 31, 23, 59, 59>>

ExpectedSheetName(name) ==
  CASE name \in {NameA, NameA2} -> <<"a", "x", "l", "s", "x">>
    [] name = NameB -> <<"b", "1", "x", "l", "s">>
    [] name \in {NameLong1, NameLong2} -> Rep("r", SheetNameMax)

NonNumericCells ==
  {Blank, Text(<<"a", "b", "c">>), Text(<<"1", "2", "%">>), Text(<<"-">>), Text(<<"x">>)}

\* a file the pipeline has no reason to reject
Acceptable(f) == f.readable /\ AbsentRequired(f) = {} /\ "seq" \notin Range(NormHeader(f))

(* C1: a failure at one file does not abort the run: when the run is over, *)
(* every uploaded file has been attempted and every file that can succeed  *)
(* is in the report mapping and in the workbook, in app1 and in app2.      *)
C1_IsolateAndContinue ==
  pc # "loop" =>
    /\ Len(attempts) = Len(uploaded_files)
    /\ \A n \in DOMAIN uploaded_files :
         Acceptable(uploaded_files[n]) =>
           /\ ExpectedSheetName(uploaded_files[n].name) \in Keys(processed_dfs)
           /\ \E w \in Range(workbook) :
                w.name = ExpectedSheetName(uploaded_files[n].name)

(* C2: when a required column is absent after normalization, the file is  *)
(* reported with exactly the absent required columns, no frame is          *)
(* returned, and the report mapping is left as it was.                     *)
C2_MissingColumnsSkip ==
  [][ (InLoop /\ up.readable /\ AbsentRequired(up) # {}) =>
        /\ processed_dfs' = processed_dfs
        /\ pc' = pc
        /\ i' = i + 1
        /\ Len(attempts') = Len(attempts) + 1
        /\ Len(errors') = Len(errors) + 1
        /\ LET a == attempts'[Len(attempts')]
               e == errors'[Len(errors')]
           IN  /\ a.file = i
               /\ a.status = "missing"
               /\ a.df = None
               /\ Range(a.missing) = AbsentRequired(up)
               /\ Len(a.missing) = Cardinality(AbsentRequired(up))
               /\ e = [kind |-> "missing", file |-> i, missing |-> a.missing]
               /\ up.sheet.header = [j \in DOMAIN LayoutNoFavorites |->
                                       LayoutNoFavorites[j].label]
                    => a.missing = <<"favorites", "shares">> ]_vars

C2_Witness ==
  /\ pc = "done"
  /\ processed_dfs # <<>>
  /\ \E k \in DOMAIN attempts :
       /\ attempts[k].status = "missing"
       /\ attempts[k].missing = <<"favorites", "shares">>
       /\ \E e \in Range(errors) : e.kind = "missing" /\ e.file = attempts[k].file

(* C3: in every retained Dataset, a derived metric whose denominator is 0  *)
(* is null, and no derived metric is an infinity.                          *)
ViewMetrics ==
  {"like_rate", "favorite_rate", "comment_rate", "engagement_rate",
   "follow_conversion_rate"}
C3_ZeroDenominatorNull ==
  \A e \in Range(processed_dfs) :
    \A r \in 1..NRows(e.value) :
      /\ IsZero(DfCell(e.value, r, "views")) =>
           \A m \in ViewMetrics : IsNull(DfCell(e.value, r, m))
      /\ IsZero(DfCell(e.value, r, "favorites")) =>
           IsNull(DfCell(e.value, r, "like_favorite_ratio"))
      /\ IsZero(Add(DfCell(e.value, r, "likes"), DfCell(e.value, r, "favorites"))) =>
           IsNull(DfCell(e.value, r, "effective_activity"))
      /\ \A m \in ViewMetrics \cup {"like_favorite_ratio", "effective_activity"} :
           DfCell(e.value, r, m).k # "inf"

C3_Witness ==
  \E e \in Range(processed_dfs) :
    \E r, q \in 1..NRows(e.value) :
      /\ IsZero(DfCell(e.value, r, "views"))
      /\ ~IsZero(DfCell(e.value, r, "likes"))
      /\ DfCell(e.value, r, "like_rate") = NA
      /\ ~IsZero(DfCell(e.value, q, "likes"))
      /\ IsZero(Add(DfCell(e.value, q, "likes"), DfCell(e.value, q, "favorites")))
      /\ DfCell(e.value, q, "effective_activity") = NA
      /\ DfCell(e.value, q, "like_rate").k = "num"

(* C4: in every retained Dataset the seq column is 1..N in row order and   *)
(* the publish timestamps do not decrease from one row to the next.        *)
C4_DenseSortedSequence ==
  \A e \in Range(processed_dfs) :
    /\ \A r \in 1..NRows(e.value) :
         /\ DfCell(e.value, r, "seq") = Num(r)
         /\ DfCell(e.value, r, "publish_time").k = "time"
    /\ \A r \in 1..NRows(e.value) - 1 :
         LexLeq(DfCell(e.value, r, "publish_time").t,
                DfCell(e.value, r + 1, "publish_time").t)

C4_Witness ==
  \E k \in OkAttempts :
    /\ attempts[k].order = <<2, 1>>
    /\ DfCell(attempts[k].df, 1, "publish_time") # DfCell(attempts[k].df, 2, "publish_time")
    /\ DfCell(attempts[k].df, 2, "seq") = Num(2)
    /\ processed_dfs # <<>>

(* C7: a data row is in the returned Dataset exactly when its publish-time *)
(* parses under the format; the rows of the Dataset are the parsed rows,   *)
(* each once, with the timestamp its text denotes.                         *)
C7_UnparseableRowsDropped ==
  \A k \in OkAttempts :
    LET a == attempts[k]
        f == AttFile(a)
    IN  /\ \A r \in 1..Len(f.sheet.body) :
             /\ SrcCell(f, r, "publish_time") \in GoodTimes => r \in Range(a.order)
             /\ SrcCell(f, r, "publish_time") \in BadTimes => r \notin Range(a.order)
        /\ NRows(a.df) = Len(a.order)
        /\ Cardinality(Range(a.order)) = Len(a.order)
        /\ \A n \in 1..Len(a.order) :
             /\ SrcCell(f, a.order[n], "publish_time") \in GoodTimes
             /\ DfCell(a.df, n, "publish_time") =
                  Time(ExpectedTime(SrcCell(f, a.order[n], "publish_time")))

C7_Witness ==
  \E k \in OkAttempts :
    LET a == attempts[k]
        f == AttFile(a)
    IN  /\ Len(f.sheet.body) = 2
        /\ SrcCell(f, 1, "publish_time") = TimeDash
        /\ SrcCell(f, 2, "publish_time") = TimeA2
        /\ a.order = <<2>>
        /\ NRows(a.df) = 1

(* C8: a numeric cell that is empty or holds a string that is no number is *)
(* 0 in the returned Dataset; its row is kept when its publish-time        *)
(* parses, and the file is analyzed without an error.                      *)
C8_BadNumericBecomesZero ==
  \A k \in DOMAIN attempts :
    LET a == attempts[k]
        f == AttFile(a)
    IN  Acceptable(f) =>
          /\ a.status = "ok"
          /\ \A r \in 1..Len(f.sheet.body) :
               SrcCell(f, r, "publish_time") \in GoodTimes => r \in Range(a.order)
          /\ \A n \in 1..Len(a.order) :
               \A c \in Range(numeric_cols) :
                 SrcCell(f, a.order[n], c) \in NonNumericCells =>
                   DfCell(a.df, n, c) = Num(0)

C8_Witness ==
  \E k \in OkAttempts :
    LET a == attempts[k]
        f == AttFile(a)
    IN  \E n \in 1..Len(a.order) :
          /\ SrcCell(f, a.order[n], "views") = Text(<<"a", "b", "c">>)
          /\ SrcCell(f, a.order[n], "exposure") = Blank
          /\ DfCell(a.df, n, "views") = Num(0)
          /\ DfCell(a.df, n, "exposure") = Num(0)
          /\ DfCell(a.df, n, "like_rate") = NA

(* C9 as stated: retained rows with equal timestamps keep their input      *)
(* order.                                                                  *)
C9_StableTies ==
  \A k \in OkAttempts :
    \A m, n \in 1..Len(attempts[k].order) :
      (m < n /\ DfCell(attempts[k].df, m, "publish_time")
                  = DfCell(attempts[k].df, n, "publish_time"))
        => attempts[k].order[m] < attempts[k].order[n]

(* C9 amended: retained rows with equal timestamps are adjacent in the     *)
(* Dataset, with consecutive sequence numbers, each input row once; the    *)
(* order among them is not fixed.                                          *)
C9_TiesAdjacent ==
  \A k \in OkAttempts :
    LET a == attempts[k]
    IN  /\ Cardinality(Range(a.order)) = Len(a.order)
        /\ \A m, n \in 1..Len(a.order) :
             (m < n /\ DfCell(a.df, m, "publish_time") = DfCell(a.df, n, "publish_time"))
               => \A q \in m..n :
                    /\ DfCell(a.df, q, "publish_time") = DfCell(a.df, m, "publish_time")
                    /\ DfCell(a.df, q, "seq") = Num(DfCell(a.df, m, "seq").n + (q - m))

C9_Witness ==
  \E k \in OkAttempts :
    \E m, n \in 1..Len(attempts[k].order) :
      /\ m < n
      /\ DfCell(attempts[k].df, m, "publish_time") = DfCell(attempts[k].df, n, "publish_time")
      /\ attempts[k].order[m] > attempts[k].order[n]
      /\ Len(attempts[k].order) = 3

LastOk(key) ==
  CHOOSE k \in OkAttempts :
    /\ ExpectedSheetName(AttFile(attempts[k]).name) = key
    /\ \A m \in OkAttempts :
         ExpectedSheetName(AttFile(attempts[m]).name) = key => m <= k

(* C5: the report mapping has exactly one entry for each sheet name of a   *)
(* successfully analyzed file, holding the Dataset of the last such file;  *)
(* the workbook has one sheet for each entry.                              *)
C5_OneSheetPerIdentifier ==
  /\ Keys(processed_dfs) = {ExpectedSheetName(AttFile(attempts[k]).name) : k \in OkAttempts}
  /\ Cardinality(Keys(processed_dfs)) = Len(processed_dfs)
  /\ \A n \in DOMAIN processed_dfs :
       processed_dfs[n].value = attempts[LastOk(processed_dfs[n].key)].df
  /\ (pc = "done" /\ processed_dfs # <<>>) =>
       /\ Len(workbook) = Len(processed_dfs)
       /\ \A n \in DOMAIN workbook : workbook[n].name = processed_dfs[n].key

C5_Witness ==
  /\ pc = "done"
  /\ Len(processed_dfs) = 1
  /\ Len(workbook) = 1
  /\ \E k, m \in OkAttempts :
       /\ k < m
       /\ AttFile(attempts[k]).name = NameLong1
       /\ AttFile(attempts[m]).name = NameLong2
       /\ attempts[k].df # attempts[m].df
       /\ processed_dfs[1].value = attempts[m].df

\* the column order documented for the workbook
DocumentedColumns ==
  << "seq", "title", "publish_time", "content_type", "exposure", "views",
     "cover_click_rate", "likes", "comments", "favorites", "follower_gain",
     "shares", "like_rate", "favorite_rate", "engagement_rate",
     "follow_conversion_rate", "like_favorite_ratio", "effective_activity" >>

\* the derived columns, in the order the metric calculator adds them
DerivedColumns ==
  << "like_rate", "favorite_rate", "like_favorite_ratio", "comment_rate",
     "engagement_rate", "effective_activity", "follow_conversion_rate" >>

ReRead(n) == ReadExcel(workbook[n].sheet, 0)
ReReadColumns(n) == [j \in DOMAIN ReRead(n).columns |-> Strip(ReRead(n).columns[j])]

(* C6 as stated: the workbook read back has one sheet for each Dataset,    *)
(* each with the documented column order and the Dataset's row count.      *)
C6_DocumentedRoundTrip ==
  pc = "done" =>
    /\ Len(workbook) = Len(processed_dfs)
    /\ \A n \in DOMAIN workbook :
         /\ ReReadColumns(n) = DocumentedColumns
         /\ NRows(ReRead(n)) = NRows(processed_dfs[n].value)

(* C6 amended: the workbook read back has one sheet for each entry of the  *)
(* report mapping, each with the Dataset's row count and with the columns  *)
(* seq, then the columns of the input file in the file's order under their *)
(* canonical names, then the derived columns the input did not have, in    *)
(* the order they are computed; the documented columns are all among them. *)
C6_RoundTrip ==
  pc = "done" =>
    /\ Len(workbook) = Len(processed_dfs)
    /\ \A n \in DOMAIN workbook :
         LET a == attempts[LastOk(processed_dfs[n].key)]
             input == NormHeader(AttFile(a))
         IN  /\ ReReadColumns(n) =
                  <<"seq">> \o input
                    \o SelectSeq(DerivedColumns, LAMBDA c : c \notin Range(input))
             /\ Range(DocumentedColumns) \subseteq Range(ReReadColumns(n))
             /\ NRows(ReRead(n)) = NRows(processed_dfs[n].value)
             /\ NRows(ReRead(n)) = Len(a.order)

C6_Witness ==
  /\ pc = "done"
  /\ Len(workbook) = 2
  /\ \E n \in DOMAIN workbook :
       /\ NRows(ReRead(n)) = 3
       /\ ReReadColumns(n)[2] = "exposure"
       /\ "note" \in Range(ReReadColumns(n))
       /\ \E r \in 1..3, j \in DOMAIN ReReadColumns(n) :
            /\ ReReadColumns(n)[j] = "effective_activity"
            /\ processed_dfs[n].value.rows[r][j] = NA
            /\ workbook[n].sheet.body[r][j] = Blank
            /\ ReRead(n).rows[r][j] = NaN

====
